---- MODULE Spec2Model ----
(***************************************************************************)
(* Model of the oura-mcp forwarding core:                                  *)
(*   config.py       OuraConfig  (token load / save / validate)            *)
(*   oura_client.py  OuraClient  (_get_headers, refresh_access_token,      *)
(*                                _request, _handle_pagination)            *)
(*   server.py       parse_date, format_response, the tool and resource    *)
(*                   functions                                             *)
(* A thread is one tool call: it builds its own OuraClient (with or        *)
(* without an override token) and runs one _request or one                 *)
(* _handle_pagination on the process-wide config, directly or as the       *)
(* client calls of a function of server.py.  Steps are the code between    *)
(* two blocking HTTP calls; SpecConc also stops between the stores and the *)
(* file write of save_tokens.                                              *)
(***************************************************************************)
EXTENDS Integers, Sequences, FiniteSets, TLC

\* env: the process environment; tokenFile: the token file on disk;
\* cfg: the process-wide OuraConfig; fresh: cfg is as __init__ left it (no
\* save_tokens since); verdict: what the last config.validate() returned
\* (<<>> before any call); lastWrite: how the file write of the last
\* save_tokens ended ("none" before any); th: the tool calls
VARIABLES env, tokenFile, cfg, fresh, verdict, lastWrite, th

vars == <<env, tokenFile, cfg, fresh, verdict, lastWrite, th>>

----------------------------------------------------------------------------
(* Bounds *)

\* pages after which the modelled upstream stops handing out a cursor
MaxPages == 3

\* the tool calls that can exist side by side, each with its own OuraClient
Threads == {1, 2}

----------------------------------------------------------------------------
(* Python values *)

\* Python None (also JSON null)
None == "<None>"
\* a key that is not in a dict
Absent == "<absent>"
\* the list-valued key "data" is not in a dict
NoData == <<-1>>

\* bool(x) of a str-or-None value
Truthy(x) == x \notin {None, Absent, ""}

\* dict.get(key): None when the key is missing
Get(v) == IF v = Absent THEN None ELSE v

\* dict.get(key, default)
GetDefault(v, d) == IF v = Absent THEN d ELSE v

\* a or b
Or(a, b) == IF Truthy(a) THEN a ELSE b

----------------------------------------------------------------------------
(* config.py : OuraConfig *)

\* values an environment variable can have: unset, set to "", set
EnvAccess == {None, "", "A0"}
EnvRefresh == {None, "", "R0"}
EnvClientId == {None, "", "CID"}
EnvClientSecret == {None, "", "SEC"}

Envs ==
  [OURA_ACCESS_TOKEN : EnvAccess, OURA_REFRESH_TOKEN : EnvRefresh,
   OURA_CLIENT_ID : EnvClientId, OURA_CLIENT_SECRET : EnvClientSecret]

\* The token file.  state: "missing" (exists() is false), "unreadable"
\* (open raises IOError), "undecodable" (read raises UnicodeDecodeError),
\* "corrupt" (json.load raises JSONDecodeError), "nonobject" (valid JSON
\* that is not an object), "object" (a JSON object with the two keys, each
\* of which can be missing, null, "" or a token).
FileOf(st, a, r) == [state |-> st, access_token |-> a, refresh_token |-> r]

FileObjects ==
  { FileOf("object", a, r) : a \in {Absent, None, "", "A1"},
                             r \in {Absent, None, "", "R1"} }

FileBroken ==
  { FileOf(st, Absent, Absent) :
      st \in {"missing", "unreadable", "undecodable", "corrupt", "nonobject"} }

Files == FileObjects \cup FileBroken

\* OuraConfig as an object: the four fields, and the exception (if any)
\* that left __init__.
ConfigOf(a, r, id, sec, exc) ==
  [access_token |-> a, refresh_token |-> r, client_id |-> id,
   client_secret |-> sec, raised |-> exc]

\* OuraConfig._load_tokens: the fall-back to the environment variables
LoadEnvOnly(c, e) ==
  [c EXCEPT !.access_token = e.OURA_ACCESS_TOKEN,
            !.refresh_token = e.OURA_REFRESH_TOKEN]

load_tokensEnvFirst(c, f, e) ==
  IF f.state = "object"
  THEN [c EXCEPT !.access_token = Or(e.OURA_ACCESS_TOKEN,
                                      Get(f.access_token)),
                 !.refresh_token = Or(e.OURA_REFRESH_TOKEN,
                                       Get(f.refresh_token))]
  ELSE [c EXCEPT !.access_token = e.OURA_ACCESS_TOKEN,
                 !.refresh_token = e.OURA_REFRESH_TOKEN]

load_tokensPerField(c, f, e) ==
  IF f.state = "object"
  THEN [c EXCEPT !.access_token = GetDefault(f.access_token,
                                              e.OURA_ACCESS_TOKEN),
                 !.refresh_token = GetDefault(f.refresh_token,
                                               e.OURA_REFRESH_TOKEN)]
  ELSE [c EXCEPT !.access_token = e.OURA_ACCESS_TOKEN,
                 !.refresh_token = e.OURA_REFRESH_TOKEN]

\* OuraConfig._load_tokens, on the fields set by __init__
load_tokens(c, f, e) ==
  CASE f.state = "missing" -> LoadEnvOnly(c, e)
    [] f.state \in {"unreadable", "corrupt"} -> LoadEnvOnly(c, e)
    [] f.state = "undecodable" -> [c EXCEPT !.raised = "UnicodeDecodeError"]
    [] f.state = "nonobject" -> [c EXCEPT !.raised = "AttributeError"]
    [] f.state = "object" ->
         [c EXCEPT !.access_token = Get(f.access_token),
                   !.refresh_token = Get(f.refresh_token)]

\* OuraConfig.__init__
OuraConfig(f, e) ==
  load_tokens(ConfigOf(None, None, e.OURA_CLIENT_ID, e.OURA_CLIENT_SECRET,
                        None), f, e)

\* what open(token_file, "w") + json.dump can do to the file
WriteOutcomes == {"ok", "open_fails", "dump_fails"}

WriteFileAccessOnly(f, a, r, w) ==
  CASE w = "ok" -> FileOf("object", a, Absent)
    [] w = "open_fails" -> f
    [] w = "dump_fails" -> FileOf("corrupt", Absent, Absent)

\* the file after the try block of save_tokens
WriteFile(f, a, r, w) ==
  CASE w = "ok" -> FileOf("object", a, r)
    [] w = "open_fails" -> f
    [] w = "dump_fails" -> FileOf("corrupt", Absent, Absent)

save_tokensAccessOnly(c, a, r) == [c EXCEPT !.access_token = a]

\* OuraConfig.save_tokens: the in-memory part
save_tokens(c, a, r) == [c EXCEPT !.access_token = a, !.refresh_token = r]

validateEitherCredential(c) ==
  IF ~Truthy(c.access_token)
  THEN <<FALSE, "OURA_ACCESS_TOKEN is required but not set. Get your Personal Access Token from: https://cloud.ouraring.com/personal-access-tokens">>
  ELSE IF Truthy(c.refresh_token)
            /\ ~(Truthy(c.client_id) \/ Truthy(c.client_secret))
       THEN <<FALSE, "OURA_CLIENT_ID and OURA_CLIENT_SECRET are required when using OURA_REFRESH_TOKEN">>
       ELSE <<TRUE, "">>

\* OuraConfig.validate: <<ok, message>>
validate(c) ==
  IF ~Truthy(c.access_token)
  THEN <<FALSE, "OURA_ACCESS_TOKEN is required but not set. Get your Personal Access Token from: https://cloud.ouraring.com/personal-access-tokens">>
  ELSE IF Truthy(c.refresh_token)
            /\ ~(Truthy(c.client_id) /\ Truthy(c.client_secret))
       THEN <<FALSE, "OURA_CLIENT_ID and OURA_CLIENT_SECRET are required when using OURA_REFRESH_TOKEN">>
       ELSE <<TRUE, "">>

\* OuraConfig.is_using_oauth2
is_using_oauth2(c) ==
  Truthy(c.refresh_token) /\ Truthy(c.client_id) /\ Truthy(c.client_secret)

----------------------------------------------------------------------------
(* What the upstream can answer *)

\* An HTTP body.  shape: "notjson" (response.json() raises ValueError),
\* "nondict" (valid JSON that is not an object), "dict".  text is
\* response.text; the other fields are the keys the code reads.
BodyOf(sh, tx, ti, de, ed, da, nt) ==
  [shape |-> sh, text |-> tx, title |-> ti, detail |-> de,
   error_description |-> ed, data |-> da, next_token |-> nt]

\* a page: {"data": [...], "next_token": ...}
PageBody(da, nt) == BodyOf("dict", "{page}", Absent, Absent, Absent, da, nt)

\* an error object
ErrBody(ti, de, ed) == BodyOf("dict", "{err}", ti, de, ed, NoData, Absent)

ErrBodies ==
  { ErrBody("Title", "Detail", Absent), ErrBody(Absent, Absent, "Desc"),
    ErrBody(Absent, None, "Desc"), ErrBody(None, Absent, Absent),
    ErrBody(Absent, Absent, Absent) }

OtherBodies ==
  { BodyOf("notjson", "", Absent, Absent, Absent, NoData, Absent),
    BodyOf("notjson", "oops", Absent, Absent, Absent, NoData, Absent),
    BodyOf("nondict", "[]", Absent, Absent, Absent, NoData, Absent) }

Statuses == {200, 302, 400, 401, 500}

\* the outcome of self._client.request: a response, or httpx.RequestError
HttpOf(st, b) == [kind |-> "response", status |-> st, body |-> b, msg |-> ""]
TransportOf(m) ==
  [kind |-> "transport", status |-> 0,
   body |-> BodyOf("notjson", "", Absent, Absent, Absent, NoData, Absent),
   msg |-> m]

\* what the upstream answers to a data request
DataResponses ==
  { HttpOf(st, b) : st \in Statuses,
                    b \in {PageBody(<<1>>, Absent)} \cup ErrBodies
                             \cup OtherBodies }
    \cup { TransportOf(m) : m \in {"", "connection refused"} }

\* the outcome of the POST to /oauth/token: status, body shape and the two
\* token fields of the body, or any exception of the POST
TokenOf(k, st, sh, a, r) ==
  [kind |-> k, status |-> st, shape |-> sh, access_token |-> a,
   refresh_token |-> r]

TokenFields ==
  { <<"A2", "R2">>, <<"A3", "R3">>, <<Absent, "R2">>, <<"", "R2">>,
    <<"A2", Absent>>, <<"A2", None>>, <<"A2", "">> }

TokenResponses ==
  { TokenOf("response", 200, "dict", p[1], p[2]) : p \in TokenFields }
    \cup { TokenOf("response", 400, "dict", "A2", "R2"),
            TokenOf("response", 200, "notjson", Absent, Absent),
            TokenOf("response", 200, "nondict", Absent, Absent),
            TokenOf("transport", 0, "notjson", Absent, Absent) }

----------------------------------------------------------------------------
(* oura_client.py : results of a call *)

\* response.json() of a body that parses
JsonOf(b) ==
  [isdict |-> (b.shape = "dict"), title |-> b.title, detail |-> b.detail,
   error_description |-> b.error_description, data |-> b.data,
   next_token |-> b.next_token]

NoJson == JsonOf(BodyOf("nondict", "", Absent, Absent, Absent, NoData, Absent))

ResultOf(k, st, m, d, v, it) ==
  [kind |-> k, status |-> st, message |-> m, detail |-> d, value |-> v,
   items |-> it]

NoResult == ResultOf("none", 0, "", None, NoJson, <<>>)

\* OuraAPIError(status_code, message, detail)
OuraAPIError(st, m, d) == ResultOf("OuraAPIError", st, m, d, NoJson, <<>>)

\* an exception of another class leaves the call
Raised(cls) == ResultOf(cls, 0, "", None, NoJson, <<>>)

\* _request returns a parsed body
Returned(v) == ResultOf("return", 0, "", None, v, <<>>)

\* _handle_pagination returns the list
ReturnedItems(it) == ResultOf("return", 0, "", None, NoJson, it)

\* f"HTTP {response.status_code}"
HttpMessage(st) ==
  CASE st = 400 -> "HTTP 400"
    [] st = 401 -> "HTTP 401"
    [] st = 500 -> "HTTP 500"
    [] OTHER -> "HTTP"

\* response.text or None
TextOrNone(tx) == IF tx = "" THEN None ELSE tx

get_headersUnchecked(ov, c) ==
  [ok |-> TRUE, token |-> Or(ov, c.access_token), error |-> NoResult]

\* OuraClient._get_headers: the token sent, or the missing-credential error
get_headers(ov, c) ==
  LET token == Or(ov, c.access_token)
  IN  IF ~Truthy(token)
      THEN [ok |-> FALSE, token |-> None,
            error |-> OuraAPIError(401, "No access token available",
                                   "Please configure OURA_ACCESS_TOKEN")]
      ELSE [ok |-> TRUE, token |-> token, error |-> NoResult]

\* OuraClient._request, from "Handle error responses" to the return
HandleResponse(r) ==
  IF r.status >= 400
  THEN CASE r.body.shape = "notjson" ->
              OuraAPIError(r.status, HttpMessage(r.status),
                           TextOrNone(r.body.text))
         [] r.body.shape = "nondict" -> Raised("AttributeError")
         [] OTHER ->
              OuraAPIError(r.status, GetDefault(r.body.title, "API Error"),
                           GetDefault(r.body.detail,
                                      Get(r.body.error_description)))
  ELSE IF r.body.shape = "notjson" THEN Raised("ValueError")
       ELSE Returned(JsonOf(r.body))

TransportErrorNoDetail(r) == OuraAPIError(0, "Request failed", None)

\* OuraClient._request, the except clause: httpx.RequestError
TransportError(r) == OuraAPIError(0, "Request failed", r.msg)

----------------------------------------------------------------------------
(* server.py : parse_date.  A str is a tuple of characters; a date is its  *)
(* day number.                                                             *)

\* the argument None
NoneStr == <<"<None>">>

UpperLetters ==
  <<"A", "B", "C", "D", "E", "F", "G", "H", "I", "J", "K", "L", "M", "N",
    "O", "P", "Q", "R", "S", "T", "U", "V", "W", "X", "Y", "Z">>

LowerLetters ==
  <<"a", "b", "c", "d", "e", "f", "g", "h", "i", "j", "k", "l", "m", "n",
    "o", "p", "q", "r", "s", "t", "u", "v", "w", "x", "y", "z">>

Whitespace == {" ", "\t", "\n"}

LowerChar(ch) ==
  IF \E i \in 1..Len(UpperLetters) : UpperLetters[i] = ch
  THEN LowerLetters[CHOOSE i \in 1..Len(UpperLetters) : UpperLetters[i] = ch]
  ELSE ch

\* str.lower()
lower(str) == [i \in 1..Len(str) |-> LowerChar(str[i])]

RECURSIVE lstrip(_)
lstrip(str) ==
  IF str # <<>> /\ str[1] \in Whitespace THEN lstrip(Tail(str)) ELSE str

RECURSIVE rstrip(_)
rstrip(str) ==
  IF str # <<>> /\ str[Len(str)] \in Whitespace
  THEN rstrip(SubSeq(str, 1, Len(str) - 1))
  ELSE str

\* str.strip()
strip(str) == rstrip(lstrip(str))

\* str.startswith(prefix)
startswith(str, prefix) ==
  Len(str) >= Len(prefix) /\ SubSeq(str, 1, Len(prefix)) = prefix

\* what parse_date returns: strftime("%Y-%m-%d") of a day, or a str
DateOf(day) == [kind |-> "date", day |-> day, text |-> <<>>]
TextOf(str) == [kind |-> "text", day |-> 0, text |-> str]

parse_dateVerbatim(date_str, today) ==
  IF date_str = NoneStr \/ date_str = <<>> THEN DateOf(today)
  ELSE CASE date_str = <<"t", "o", "d", "a", "y">> -> DateOf(today)
         [] date_str = <<"y", "e", "s", "t", "e", "r", "d", "a", "y">> ->
              DateOf(today - 1)
         [] date_str = <<"l", "a", "s", "t", " ", "w", "e", "e", "k">> ->
              DateOf(today - 7)
         [] date_str = <<"l", "a", "s", "t", " ", "m", "o", "n", "t", "h">> ->
              DateOf(today - 30)
         [] OTHER -> TextOf(date_str)

\* parse_date(date_str), with datetime.now() on day today
parse_date(date_str, today) ==
  IF date_str = NoneStr \/ date_str = <<>> THEN DateOf(today)
  ELSE LET d == strip(lower(date_str))
       IN  CASE d = <<"t", "o", "d", "a", "y">> -> DateOf(today)
             [] d = <<"y", "e", "s", "t", "e", "r", "d", "a", "y">> ->
                  DateOf(today - 1)
             [] startswith(d, <<"l", "a", "s", "t", " ", "w", "e", "e", "k">>)
                  -> DateOf(today - 7)
             [] startswith(d, <<"l", "a", "s", "t", " ", "m", "o", "n", "t",
                                "h">>)
                  -> DateOf(today - 30)
             [] OTHER -> TextOf(d)

----------------------------------------------------------------------------
(* oura_client.py : one call of one OuraClient *)

\* OuraClient(access_token=...): the override token of get_oura_client
Overrides == {None, "", "OV"}
StartDates == {Absent, "d1"}

ParamsOf(sd, nt) == [start_date |-> sd, next_token |-> nt]

\* what a tool or resource function of server.py hands back to the host:
\* nothing yet, the text it returns, or the exception that leaves it
OutputOf(k, tx, cls) == [kind |-> k, text |-> tx, exc |-> cls]

\* a JSON payload: its keys when it is an object, and its values
PayloadOf(ks, e, st, d, parts) ==
  [keys |-> ks, error |-> e, status_code |-> st, date |-> d, data |-> parts]

\* format_response(data): json.dumps(data, indent=2, default=str)
format_response(data) == [indent |-> 2, json |-> data]

NoOutput == OutputOf("none", format_response(PayloadOf({}, <<>>, 0, DateOf(0), <<>>)), "")

\* A tool call.  pc: "idle", "await_data" (blocked in self._client.request),
\* "await_token" (blocked in self._client.post of the refresh), "done".
\* retry is retry_on_401 of the running _request frame.  The other fields
\* record what the running _request call did (sent, statuses, refreshes, posts,
\* tokResps, refreshRet, saved; last is the response in the variable `response`) and what
\* _handle_pagination did and holds (calls, pages, params, all_items).
\* tool is the function of server.py that runs the call ("none": the client
\* method is called directly), arg its start_date argument, today the day of
\* datetime.now(), start its local variable start, collected what its
\* client calls returned so far, output what it hands back.
\* writes are the outcomes of the token file writes of the call; concurrent
\* tells that another call was running when this one began.  allSent and
\* allRefreshes count the data requests and the refresh_access_token calls
\* of all the _request frames of the client call.
IdleThread ==
  [pc |-> "idle", op |-> "none", override |-> None, retry |-> TRUE,
   retry0 |-> TRUE, params |-> ParamsOf(Absent, Absent), sent |-> <<>>,
   statuses |-> <<>>, last |-> TransportOf(""), refreshes |-> 0, posts |-> <<>>, tokResps |-> <<>>,
   refreshRet |-> <<>>, saved |-> <<>>, calls |-> <<>>, pages |-> <<>>, all_items |-> <<>>,
   result |-> NoResult, tool |-> "none", arg |-> NoneStr, today |-> 0,
   start |-> DateOf(0), collected |-> <<>>, output |-> NoOutput,
   writes |-> <<>>, concurrent |-> FALSE, allSent |-> 0,
   allRefreshes |-> 0]

\* the call ends: an exception leaves it, or it returns
Finished(s, res) == [s EXCEPT !.pc = "done", !.result = res]

SendStoredOnRetry(s, retry, c) ==
  LET h == get_headers(IF retry THEN s.override ELSE None, c)
  IN  IF ~h.ok THEN Finished(s, h.error)
      ELSE [s EXCEPT !.pc = "await_data", !.retry = retry,
                     !.sent = Append(@, [token |-> h.token,
                                         params |-> s.params]),
                     !.allSent = @ + 1]

\* OuraClient._request up to self._client.request: build the headers and
\* send, or fail with the missing-credential error
Send(s, retry, c) ==
  LET h == get_headers(s.override, c)
  IN  IF ~h.ok THEN Finished(s, h.error)
      ELSE [s EXCEPT !.pc = "await_data", !.retry = retry,
                     !.sent = Append(@, [token |-> h.token,
                                         params |-> s.params]),
                     !.allSent = @ + 1]

\* a new _request(method, endpoint, params, retry_on_401) call
request(s, retry, c) ==
  Send([s EXCEPT !.retry0 = retry, !.sent = <<>>, !.statuses = <<>>,
                 !.last = TransportOf(""), !.refreshes = 0, !.posts = <<>>, !.tokResps = <<>>,
                 !.refreshRet = <<>>, !.saved = <<>>, !.calls = Append(@, s.params)],
       retry, c)

NextPageFirstOnly(s, v, c) ==
  IF ~v.isdict THEN Finished(s, Raised("AttributeError"))
  ELSE LET items == IF v.data = NoData THEN <<>> ELSE v.data
           s1 == [s EXCEPT !.all_items = @ \o items, !.pages = Append(@, v)]
       IN  Finished(s1, ReturnedItems(s1.all_items))

NextPageOverwrite(s, v, c) ==
  IF ~v.isdict THEN Finished(s, Raised("AttributeError"))
  ELSE LET items == IF v.data = NoData THEN <<>> ELSE v.data
           next_token == Get(v.next_token)
           s1 == [s EXCEPT !.all_items = items, !.pages = Append(@, v)]
       IN  IF ~Truthy(next_token)
           THEN Finished(s1, ReturnedItems(s1.all_items))
           ELSE request([s1 EXCEPT !.params.next_token = next_token],
                        TRUE, c)

\* OuraClient._handle_pagination, the loop body after _request returned v
NextPage(s, v, c) ==
  IF ~v.isdict THEN Finished(s, Raised("AttributeError"))
  ELSE LET items == IF v.data = NoData THEN <<>> ELSE v.data
           next_token == Get(v.next_token)
           s1 == [s EXCEPT !.all_items = @ \o items, !.pages = Append(@, v)]
       IN  IF ~Truthy(next_token)
           THEN Finished(s1, ReturnedItems(s1.all_items))
           ELSE request([s1 EXCEPT !.params.next_token = next_token],
                        TRUE, c)

DeliverPartial(s, res, c) ==
  IF s.op = "paginate" /\ res.kind = "return"
  THEN NextPage(s, res.value, c)
  ELSE IF s.op = "paginate" THEN Finished(s, ReturnedItems(s.all_items))
       ELSE Finished(s, res)

\* the outermost _request frame of the call ends with res
Deliver(s, res, c) ==
  IF s.op = "paginate" /\ res.kind = "return"
  THEN NextPage(s, res.value, c)
  ELSE Finished(s, res)

\* OuraClient.refresh_access_token, the two early returns
CanRefresh(c) ==
  Truthy(c.refresh_token) /\ Truthy(c.client_id) /\ Truthy(c.client_secret)

\* the form of the POST to /oauth/token
RefreshForm(c) ==
  [grant_type |-> "refresh_token", refresh_token |-> c.refresh_token,
   client_id |-> c.client_id, client_secret |-> c.client_secret]

RefreshOkRefreshOnly(tr) ==
  /\ tr.kind = "response"
  /\ tr.status = 200
  /\ tr.shape = "dict"
  /\ Truthy(Get(tr.refresh_token))

RefreshOkAccessOnly(tr) ==
  /\ tr.kind = "response"
  /\ tr.status = 200
  /\ tr.shape = "dict"
  /\ Truthy(Get(tr.access_token))

\* OuraClient.refresh_access_token, after the POST: does it save and
\* return True
RefreshOk(tr) ==
  /\ tr.kind = "response"
  /\ tr.status = 200
  /\ tr.shape = "dict"
  /\ Truthy(Get(tr.access_token))
  /\ Truthy(Get(tr.refresh_token))

NewTokensSwapped(tr) == <<Get(tr.refresh_token), Get(tr.access_token)>>

\* OuraClient.refresh_access_token: the pair handed to save_tokens
NewTokens(tr) == <<Get(tr.access_token), Get(tr.refresh_token)>>

AfterDataAlwaysRefresh(s, r, c) ==
  LET s1 == [s EXCEPT !.statuses = Append(@, r.status), !.last = r]
  IN  IF r.kind = "transport" THEN Deliver(s1, TransportError(r), c)
      ELSE IF r.status = 401 /\ Len(s.sent) < 3
      THEN LET s2 == [s1 EXCEPT !.refreshes = @ + 1, !.allRefreshes = @ + 1]
           IN  IF CanRefresh(c)
               THEN [s2 EXCEPT !.pc = "await_token",
                               !.posts = Append(@, RefreshForm(c))]
               ELSE Deliver([s2 EXCEPT !.refreshRet = Append(@, FALSE)],
                            HandleResponse(r), c)
      ELSE Deliver(s1, HandleResponse(r), c)

\* OuraClient._request after self._client.request came back with r
AfterData(s, r, c) ==
  LET s1 == [s EXCEPT !.statuses = Append(@, r.status), !.last = r]
  IN  IF r.kind = "transport" THEN Deliver(s1, TransportError(r), c)
      ELSE IF r.status = 401 /\ s.retry
      THEN LET s2 == [s1 EXCEPT !.refreshes = @ + 1, !.allRefreshes = @ + 1]
           IN  IF CanRefresh(c)
               THEN [s2 EXCEPT !.pc = "await_token",
                               !.posts = Append(@, RefreshForm(c))]
               ELSE Deliver([s2 EXCEPT !.refreshRet = Append(@, FALSE)],
                            HandleResponse(r), c)
      ELSE Deliver(s1, HandleResponse(r), c)

AfterRefreshReturnsFalse(s, ok, c) ==
  Deliver([s EXCEPT !.refreshRet = Append(@, FALSE)],
          HandleResponse(s.last), c)

\* OuraClient._request after refresh_access_token returned: retry with
\* retry_on_401=False, or handle the 401 response
AfterRefresh(s, ok, c) ==
  LET s1 == [s EXCEPT !.refreshRet = Append(@, ok)]
  IN  IF ok THEN Send(s1, FALSE, c)
      ELSE Deliver(s1, HandleResponse(s.last), c)

----------------------------------------------------------------------------
(* server.py : the tool and resource functions *)

\* the functions modelled, one of each shape: a paginated tool with a
\* start_date argument, a tool of one _request, a summary of three paginated
\* calls, a resource of one _request and one paginated call
Tools ==
  {"get_daily_sleep", "get_personal_info", "get_today_summary",
   "get_personal_info_resource"}

\* the client calls of a function, in order
ToolPlan(tool) ==
  CASE tool = "get_daily_sleep" -> <<"paginate">>
    [] tool = "get_personal_info" -> <<"request">>
    [] tool = "get_today_summary" -> <<"paginate", "paginate", "paginate">>
    [] tool = "get_personal_info_resource" -> <<"request", "paginate">>
    [] OTHER -> <<>>

\* the start date a function passes to its paginated calls
ToolStart(tool, date_str, today) ==
  IF tool = "get_daily_sleep" THEN parse_date(date_str, today)
  ELSE DateOf(today)

\* str(e) of an OuraAPIError
StrOf(e) ==
  IF Truthy(e.detail) THEN <<e.status, e.message, e.detail>>
  ELSE <<e.status, e.message>>

\* x[0] if x else None (<<>> stands for None)
FirstOrNone(x) == IF Len(x) = 0 THEN <<>> ELSE <<x[1]>>

ToolErrorKeepsData(s) ==
  OutputOf("return",
           format_response(PayloadOf({"error", "status_code"},
                                     StrOf(s.result), s.result.status,
                                     DateOf(0), s.collected)),
           "")

\* except OuraAPIError as e: return format_response({"error": str(e),
\* "status_code": e.status_code})
ToolError(s) ==
  OutputOf("return",
           format_response(PayloadOf({"error", "status_code"},
                                     StrOf(s.result), s.result.status,
                                     DateOf(0), <<>>)),
           "")

\* return format_response(data), data built from what the calls returned
ToolReturn(s) ==
  OutputOf("return",
           format_response(
             CASE s.tool = "get_today_summary" ->
                    PayloadOf({"date", "readiness", "sleep", "activity"},
                              <<>>, 0, s.start,
                              [i \in 1..3 |-> FirstOrNone(s.collected[i])])
               [] s.tool = "get_personal_info_resource" ->
                    PayloadOf({"personal_info", "ring_configuration"},
                              <<>>, 0, DateOf(0),
                              <<s.collected[1],
                                FirstOrNone(s.collected[2])>>)
               [] OTHER ->
                    PayloadOf({}, <<>>, 0, DateOf(0), s.collected)),
           "")

\* the function calls the next client method on its client
call(s, k, c) ==
  LET op == ToolPlan(s.tool)[k]
  IN  request([s EXCEPT !.op = op,
                        !.params = IF op = "paginate"
                                   THEN ParamsOf(s.start, Absent)
                                   ELSE ParamsOf(Absent, Absent),
                        !.calls = <<>>, !.pages = <<>>, !.all_items = <<>>,
                        !.allSent = 0, !.allRefreshes = 0,
                        !.result = NoResult],
              TRUE, c)

\* the body of a function from the point where a client call ended: the
\* except clause, the next client call, or the return
RECURSIVE tool_body(_, _)
tool_body(s, c) ==
  IF s.tool = "none" \/ s.pc # "done" \/ s.output.kind # "none" THEN s
  ELSE IF s.result.kind = "OuraAPIError" THEN [s EXCEPT !.output = ToolError(s)]
  ELSE IF s.result.kind # "return"
  THEN [s EXCEPT !.output = OutputOf("raise", NoOutput.text, s.result.kind)]
  ELSE LET got == IF s.op = "paginate" THEN s.result.items
                  ELSE <<s.result.value>>
           s1 == [s EXCEPT !.collected = Append(@, got)]
       IN  IF Len(s1.collected) < Len(ToolPlan(s.tool))
           THEN tool_body(call(s1, Len(s1.collected) + 1, c), c)
           ELSE [s1 EXCEPT !.output = ToolReturn(s1)]

----------------------------------------------------------------------------
(* Actions *)

\* the call is between its begin and its end
InFlight(s) == s.pc \notin {"idle", "done"}

\* the host dispatches one tool call at a time
Serial(t) == \A u \in Threads \ {t} : th[u].pc = "idle"

\* a tool calls client._request("GET", endpoint) on a new client
BeginRequest(t, ov, retry) ==
  /\ th[t].pc = "idle"
  /\ cfg.raised = None
  /\ th' = [th EXCEPT ![t] =
              request([IdleThread EXCEPT
                         !.op = "request", !.override = ov,
                         !.concurrent = \E u \in Threads \ {t} :
                                           InFlight(th[u])],
                      retry, cfg)]
  /\ UNCHANGED <<env, tokenFile, cfg, fresh, verdict, lastWrite>>

\* a tool calls client._handle_pagination(endpoint, params) on a new client
BeginPaginate(t, ov, sd) ==
  /\ th[t].pc = "idle"
  /\ cfg.raised = None
  /\ th' = [th EXCEPT ![t] =
              request([IdleThread EXCEPT !.op = "paginate", !.override = ov,
                                         !.params = ParamsOf(sd, Absent)],
                      TRUE, cfg)]
  /\ UNCHANGED <<env, tokenFile, cfg, fresh, verdict, lastWrite>>

\* the host runs a tool or resource function: get_oura_client(), the
\* dates, and the first client call
BeginTool(t, ov, tool, date_str, today) ==
  /\ th[t].pc = "idle"
  /\ cfg.raised = None
  /\ th' = [th EXCEPT ![t] =
              tool_body(
                call([IdleThread EXCEPT
                        !.tool = tool, !.override = ov, !.arg = date_str,
                        !.today = today,
                        !.start = ToolStart(tool, date_str, today)],
                     1, cfg),
                cfg)]
  /\ UNCHANGED <<env, tokenFile, cfg, fresh, verdict, lastWrite>>

\* the upstream stops handing out a cursor after MaxPages pages
WithinPages(s, r) ==
  (s.op = "paginate" /\ Len(s.pages) + 1 >= MaxPages)
     => ~Truthy(r.body.next_token)

\* self._client.request returns or raises
RecvData(t, r) ==
  /\ th[t].pc = "await_data"
  /\ WithinPages(th[t], r)
  /\ th' = [th EXCEPT ![t] = tool_body(AfterData(th[t], r, cfg), cfg)]
  /\ UNCHANGED <<env, tokenFile, cfg, fresh, verdict, lastWrite>>

\* self._client.post of the refresh returns or raises; on success
\* save_tokens runs (the file write ending as w) and the request is retried
RecvToken(t, tr, w) ==
  /\ th[t].pc = "await_token"
  /\ LET s1 == [th[t] EXCEPT !.tokResps = Append(@, tr)]
     IN  IF RefreshOk(tr)
         THEN LET new == NewTokens(tr)
                  c2 == save_tokens(cfg, new[1], new[2])
                  s2 == [s1 EXCEPT !.saved = Append(@, new),
                                   !.writes = Append(@, w)]
              IN  /\ cfg' = c2
                  /\ tokenFile' = WriteFile(tokenFile, new[1], new[2], w)
                  /\ fresh' = FALSE
                  /\ verdict' = <<>>
                  /\ lastWrite' = w
                  /\ th' = [th EXCEPT ![t] =
                              tool_body(AfterRefresh(s2, TRUE, c2), c2)]
         ELSE /\ w = "ok"
              /\ th' = [th EXCEPT ![t] =
                          tool_body(AfterRefresh(s1, FALSE, cfg), cfg)]
              /\ UNCHANGED <<cfg, tokenFile, fresh, verdict, lastWrite>>
  /\ UNCHANGED env

\* the same in the steps another thread can come between.  First the POST
\* returns or raises, and on success save_tokens stores self.access_token
RecvTokenStored(t, tr) ==
  /\ th[t].pc = "await_token"
  /\ LET s1 == [th[t] EXCEPT !.tokResps = Append(@, tr)]
     IN  IF RefreshOk(tr)
         THEN LET new == NewTokens(tr)
              IN  /\ cfg' = [cfg EXCEPT !.access_token =
                                save_tokens(cfg, new[1], new[2]).access_token]
                  /\ fresh' = FALSE
                  /\ verdict' = <<>>
                  /\ th' = [th EXCEPT ![t] =
                              [s1 EXCEPT !.pc = "save_refresh",
                                         !.saved = Append(@, new)]]
         ELSE /\ th' = [th EXCEPT ![t] =
                          tool_body(AfterRefresh(s1, FALSE, cfg), cfg)]
              /\ UNCHANGED <<cfg, fresh, verdict>>
  /\ UNCHANGED <<env, tokenFile, lastWrite>>

\* save_tokens stores self.refresh_token
StoreRefresh(t) ==
  /\ th[t].pc = "save_refresh"
  /\ LET new == th[t].saved[Len(th[t].saved)]
     IN  cfg' = [cfg EXCEPT !.refresh_token =
                   save_tokens(cfg, new[1], new[2]).refresh_token]
  /\ th' = [th EXCEPT ![t].pc = "save_file"]
  /\ UNCHANGED <<env, tokenFile, fresh, verdict, lastWrite>>

\* save_tokens writes the token file, the write ending as w, and the
\* request is retried
WriteTokens(t, w) ==
  /\ th[t].pc = "save_file"
  /\ LET new == th[t].saved[Len(th[t].saved)]
     IN  tokenFile' = WriteFile(tokenFile, new[1], new[2], w)
  /\ lastWrite' = w
  /\ th' = [th EXCEPT ![t] =
              tool_body(AfterRefresh([th[t] EXCEPT !.writes = Append(@, w)],
                                     TRUE, cfg),
                        cfg)]
  /\ UNCHANGED <<env, cfg, fresh, verdict>>

\* a new process imports config.py: config = OuraConfig()
Load ==
  /\ cfg' = OuraConfig(tokenFile, env)
  /\ fresh' = TRUE
  /\ verdict' = <<>>
  /\ lastWrite' = "none"
  /\ UNCHANGED <<env, tokenFile, th>>

\* the process is restarted between two tool calls
Restart ==
  /\ \A t \in Threads : th[t].pc = "idle"
  /\ ~fresh
  /\ Load

\* the tool formats the result and the client is dropped
Finish(t) ==
  /\ th[t].pc = "done"
  /\ th' = [th EXCEPT ![t] = IdleThread]
  /\ UNCHANGED <<env, tokenFile, cfg, fresh, verdict, lastWrite>>

----------------------------------------------------------------------------
(* Specification Spec: serialized _request calls on a config loaded at     *)
(* import from the environment                                             *)

\* the host runs one tool call at a time: one caller is enough
Callers == {1}

StartEnvs ==
  [OURA_ACCESS_TOKEN : {None, "A0"}, OURA_REFRESH_TOKEN : {None, "R0"},
   OURA_CLIENT_ID : {None, "CID"}, OURA_CLIENT_SECRET : {None, "SEC"}]

Init ==
  /\ env \in StartEnvs
  /\ tokenFile = FileOf("missing", Absent, Absent)
  /\ cfg = OuraConfig(tokenFile, env)
  /\ fresh = TRUE
  /\ verdict = <<>>
  /\ lastWrite = "none"
  /\ th = [t \in Threads |-> IdleThread]

Next ==
  \/ \E t \in Callers, ov \in Overrides, retry \in BOOLEAN :
        Serial(t) /\ BeginRequest(t, ov, retry)
  \/ \E t \in Callers, r \in DataResponses : RecvData(t, r)
  \/ \E t \in Callers, tr \in TokenResponses, w \in WriteOutcomes :
        RecvToken(t, tr, w)
  \/ \E t \in Callers : Finish(t)
  \/ Restart

Spec == Init /\ [][Next]_vars

----------------------------------------------------------------------------
(* Specification SpecPage: serialized _handle_pagination calls *)

PageEnvs ==
  [OURA_ACCESS_TOKEN : {None, "A0"}, OURA_REFRESH_TOKEN : {None, "R0"},
   OURA_CLIENT_ID : {"CID"}, OURA_CLIENT_SECRET : {"SEC"}]

\* what the upstream answers to a page request
PageResponses ==
  { HttpOf(200, PageBody(da, nt)) :
      da \in {NoData, <<1>>, <<2, 3>>},
      nt \in {Absent, None, "", "t1", "t2"} }
    \cup { HttpOf(200, BodyOf("nondict", "[]", Absent, Absent, Absent,
                               NoData, Absent)),
            HttpOf(400, BodyOf("nondict", "[]", Absent, Absent, Absent,
                               NoData, Absent)),
            HttpOf(401, ErrBody("Title", "Detail", Absent)),
            HttpOf(500, BodyOf("notjson", "oops", Absent, Absent, Absent,
                               NoData, Absent)),
            TransportOf("connection refused") }

PageTokenResponses ==
  { TokenOf("response", 200, "dict", "A2", "R2"),
    TokenOf("response", 400, "dict", "A2", "R2") }

InitPage ==
  /\ env \in PageEnvs
  /\ tokenFile = FileOf("missing", Absent, Absent)
  /\ cfg = OuraConfig(tokenFile, env)
  /\ fresh = TRUE
  /\ verdict = <<>>
  /\ lastWrite = "none"
  /\ th = [t \in Threads |-> IdleThread]

NextPageCall ==
  \/ \E t \in Callers, ov \in Overrides, sd \in StartDates :
        Serial(t) /\ BeginPaginate(t, ov, sd)
  \/ \E t \in Callers, r \in PageResponses : RecvData(t, r)
  \/ \E t \in Callers, tr \in PageTokenResponses,
          w \in {"ok", "open_fails"} : RecvToken(t, tr, w)
  \/ \E t \in Callers : Finish(t)

SpecPage == InitPage /\ [][NextPageCall]_vars

----------------------------------------------------------------------------
(* Specification SpecPageFair: pagination against an upstream that answers *)
(* every page request with a page                                          *)

\* the pages of the upstream
OkPages ==
  { HttpOf(200, PageBody(da, nt)) :
      da \in {NoData, <<1>>, <<2, 3>>},
      nt \in {Absent, None, "", "t1", "t2"} }

\* the upstream answers a page request with a page
RecvPage == \E t \in Callers, r \in OkPages : RecvData(t, r)

NextPageOk ==
  \/ \E t \in Callers, ov \in Overrides, sd \in StartDates :
        Serial(t) /\ BeginPaginate(t, ov, sd)
  \/ RecvPage
  \/ \E t \in Callers : Finish(t)

\* self._client.request blocks at most 30 seconds: every request sent gets
\* its answer
SpecPageFair == InitPage /\ [][NextPageOk]_vars /\ WF_vars(RecvPage)

----------------------------------------------------------------------------
(* Specification SpecConc: one _request call of each of two threads, begun *)
(* at any time                                                             *)

ConcResponses ==
  { HttpOf(200, PageBody(<<1>>, Absent)),
    HttpOf(401, ErrBody("Title", "Detail", Absent)) }

\* the token endpoint hands out a new pair, or a new access token with the
\* refresh token it was given, or refuses
ConcTokenResponses ==
  { TokenOf("response", 200, "dict", "A2", "R2"),
    TokenOf("response", 200, "dict", "A3", "R3"),
    TokenOf("response", 200, "dict", "A2", "R0"),
    TokenOf("response", 400, "dict", "A2", "R2") }

InitConc ==
  /\ env = [OURA_ACCESS_TOKEN |-> "A0", OURA_REFRESH_TOKEN |-> "R0",
            OURA_CLIENT_ID |-> "CID", OURA_CLIENT_SECRET |-> "SEC"]
  /\ tokenFile = FileOf("missing", Absent, Absent)
  /\ cfg = OuraConfig(tokenFile, env)
  /\ fresh = TRUE
  /\ verdict = <<>>
  /\ lastWrite = "none"
  /\ th = [t \in Threads |-> IdleThread]

NextConc ==
  \/ \E t \in Threads : BeginRequest(t, None, TRUE)
  \/ \E t \in Threads, r \in ConcResponses : RecvData(t, r)
  \/ \E t \in Threads, tr \in ConcTokenResponses : RecvTokenStored(t, tr)
  \/ \E t \in Threads : StoreRefresh(t)
  \/ \E t \in Threads, w \in {"ok", "open_fails"} : WriteTokens(t, w)

SpecConc == InitConc /\ [][NextConc]_vars

----------------------------------------------------------------------------
(* Specification SpecLoad: the config object alone, over every environment *)
(* and token file                                                          *)

\* config.save_tokens(a, r), the file write ending as w
SaveTokens(a, r, w) ==
  /\ cfg.raised = None
  /\ cfg' = save_tokens(cfg, a, r)
  /\ tokenFile' = WriteFile(tokenFile, a, r, w)
  /\ fresh' = FALSE
  /\ verdict' = <<>>
  /\ lastWrite' = w
  /\ UNCHANGED <<env, th>>

\* main() calls config.validate()
Validate ==
  /\ cfg.raised = None
  /\ verdict' = validate(cfg)
  /\ UNCHANGED <<env, tokenFile, cfg, fresh, lastWrite, th>>

InitLoad ==
  /\ env \in Envs
  /\ tokenFile \in Files
  /\ cfg = OuraConfig(tokenFile, env)
  /\ fresh = TRUE
  /\ verdict = <<>>
  /\ lastWrite = "none"
  /\ th = [t \in Threads |-> IdleThread]

NextLoad ==
  \/ Load
  \/ Validate
  \/ \E a \in {"A2", "A3"}, r \in {"R2", "R3"}, w \in WriteOutcomes :
        SaveTokens(a, r, w)

SpecLoad == InitLoad /\ [][NextLoad]_vars

----------------------------------------------------------------------------
(* Specification SpecTool: serialized tool and resource functions *)

ToolEnvs ==
  [OURA_ACCESS_TOKEN : {None, "A0"}, OURA_REFRESH_TOKEN : {"R0"},
   OURA_CLIENT_ID : {"CID"}, OURA_CLIENT_SECRET : {"SEC"}]

\* what the upstream answers to a request of a tool
ToolResponses ==
  { HttpOf(200, PageBody(<<1>>, Absent)),
    HttpOf(200, PageBody(NoData, Absent)),
    HttpOf(200, PageBody(<<2>>, "t1")),
    HttpOf(400, BodyOf("nondict", "[]", Absent, Absent, Absent, NoData,
                       Absent)),
    HttpOf(401, ErrBody("Title", "Detail", Absent)),
    HttpOf(500, BodyOf("notjson", "oops", Absent, Absent, Absent, NoData,
                       Absent)),
    TransportOf("connection refused") }

\* the start_date arguments of the tools
ToolDates ==
  { <<"t", "o", "d", "a", "y">>, <<"2", "0", "2", "4">> }

\* the days of datetime.now()
Days == {40, 41}

InitTool ==
  /\ env \in ToolEnvs
  /\ tokenFile = FileOf("missing", Absent, Absent)
  /\ cfg = OuraConfig(tokenFile, env)
  /\ fresh = TRUE
  /\ verdict = <<>>
  /\ lastWrite = "none"
  /\ th = [t \in Threads |-> IdleThread]

NextTool ==
  \/ \E t \in Callers, ov \in {None, "OV"}, tool \in Tools,
          d \in ToolDates :
        Serial(t) /\ BeginTool(t, ov, tool, d, 40)
  \/ \E t \in Callers, r \in ToolResponses : RecvData(t, r)
  \/ \E t \in Callers, tr \in PageTokenResponses : RecvToken(t, tr, "ok")
  \/ \E t \in Callers : Finish(t)

SpecTool == InitTool /\ [][NextTool]_vars

----------------------------------------------------------------------------
(* Specification SpecDate: the start_date argument of a paginated tool *)

\* the start_date arguments
DateStrings ==
  { NoneStr,
    <<>>,
    <<"t", "o", "d", "a", "y">>,
    <<"T", "o", "d", "a", "y">>,
    <<"T", "O", "D", "A", "Y">>,
    <<" ", "t", "o", "d", "a", "y">>,
    <<"t", "o", "d", "a", "y", " ">>,
    <<"\t", "t", "o", "d", "a", "y">>,
    <<"y", "e", "s", "t", "e", "r", "d", "a", "y">>,
    <<"Y", "e", "s", "t", "e", "r", "d", "a", "y", " ">>,
    <<"y", "e", "s", "t", "e", "r", "d", "a", "y", "s">>,
    <<"l", "a", "s", "t", " ", "w", "e", "e", "k">>,
    <<"L", "a", "s", "t", " ", "W", "e", "e", "k">>,
    <<"l", "a", "s", "t", " ", "w", "e", "e", "k", "e", "n", "d">>,
    <<"l", "a", "s", "t", " ", " ", "w", "e", "e", "k">>,
    <<"l", "a", "s", "t", "w", "e", "e", "k">>,
    <<"l", "a", "s", "t", " ", "m", "o", "n", "t", "h">>,
    <<"L", "A", "S", "T", " ", "M", "O", "N", "T", "H", "S">>,
    <<" ", "l", "a", "s", "t", " ", "m", "o", "n", "t", "h">>,
    <<"t", "o", "m", "o", "r", "r", "o", "w">>,
    <<"t", "o">>,
    <<" ">>,
    <<"2", "0", "2", "4", "-", "0", "1", "-", "0", "1">>,
    <<" ", "2", "0", "2", "4", "-", "0", "1", "-", "0", "1">>,
    <<"1", "2", "T">>,
    <<"1", "2", "t">> }

NextDate ==
  \/ \E t \in Callers, d \in DateStrings, today \in Days :
        Serial(t) /\ BeginTool(t, None, "get_daily_sleep", d, today)
  \/ \E t \in Callers :
        RecvData(t, HttpOf(200, PageBody(<<1>>, Absent)))
  \/ \E t \in Callers : Finish(t)

SpecDate == InitTool /\ [][NextDate]_vars

----------------------------------------------------------------------------
(* Claims *)

\* a finished _request call
DoneRequest(s) == s.op = "request" /\ s.pc = "done"

\* the token endpoint answered 200 with a JSON object that carries a
\* non-empty access_token and a non-empty refresh_token
GoodTokenResponse(tr) ==
  /\ tr.kind = "response" /\ tr.status = 200 /\ tr.shape = "dict"
  /\ tr.access_token \notin {Absent, None, ""}
  /\ tr.refresh_token \notin {Absent, None, ""}

\* the first answer was 401, the refresh succeeded, the retry was answered
\* 200 with a JSON body
RefreshedThenOk(s) ==
  /\ DoneRequest(s) /\ s.retry0
  /\ s.statuses = <<401, 200>>
  /\ Len(s.tokResps) = 1 /\ GoodTokenResponse(s.tokResps[1])
  /\ s.last.body.shape # "notjson"

\* C1: a _request call with retry_on_401 that gets 401, a successful
\* refresh and 200 (a JSON body) on the retry returns the parsed body of
\* the second response, and save_tokens ran exactly once in the call, with
\* the pair the token endpoint returned.
C1_RetryReturnsSecondBody ==
  \A t \in Threads :
    RefreshedThenOk(th[t]) =>
      /\ th[t].result = Returned(JsonOf(th[t].last.body))
      /\ th[t].saved = << <<th[t].tokResps[1].access_token,
                             th[t].tokResps[1].refresh_token>> >>
      /\ Len(th[t].sent) = 2

C1_Witness ==
  \E t \in Threads :
    /\ RefreshedThenOk(th[t])
    /\ th[t].last.body.shape = "dict"
    /\ th[t].tokResps[1].access_token = "A3"

\* C2: in every _request call at most one refresh is attempted and at
\* most two data requests are sent; after 401, a successful refresh and a
\* second 401 the call fails with an OuraAPIError of status 401 and there
\* was no second refresh.
C2_OneRefreshTwoRequests ==
  \A t \in Threads :
    th[t].op = "request" =>
      /\ th[t].refreshes <= 1
      /\ Len(th[t].posts) <= 1
      /\ Len(th[t].sent) <= 2
      /\ (th[t].pc = "done" /\ th[t].statuses = <<401, 401>>) =>
            /\ th[t].result.kind = "OuraAPIError"
            /\ th[t].result.status = 401
            /\ th[t].refreshes = 1

\* the refresh triggered by a 401 returned False
RefreshFailed(s) ==
  /\ DoneRequest(s) /\ s.retry0
  /\ s.statuses # <<>> /\ s.statuses[1] = 401 /\ s.refreshes = 1
  /\ (s.tokResps = <<>> \/ ~GoodTokenResponse(s.tokResps[1]))

\* C3: when the refresh triggered by a 401 fails, _request sends no retry
\* and fails with an OuraAPIError of status 401; no status-0 error and no
\* other exception reaches the caller.
C3_RefreshFailureReports401 ==
  \A t \in Threads :
    RefreshFailed(th[t]) =>
      /\ th[t].statuses = <<401>>
      /\ Len(th[t].sent) = 1
      /\ th[t].result.kind = "OuraAPIError"
      /\ th[t].result.status = 401

\* the missing-credential error of _get_headers
IsMissingCredential(res) ==
  /\ res.kind = "OuraAPIError" /\ res.status = 401
  /\ res.message = "No access token available"

\* C4: a _request call made with no override token and no stored access
\* token fails at once with the missing-credential error: no data request,
\* no refresh, no POST, and cfg and the token file stay as they were.
C4_MissingCredentialFailsAtOnce ==
  [][\A t \in Threads :
       (/\ th[t].pc = "idle" /\ th'[t].op = "request"
        /\ ~Truthy(th'[t].override) /\ ~Truthy(cfg.access_token)) =>
         /\ th'[t].pc = "done"
         /\ IsMissingCredential(th'[t].result)
         /\ th'[t].sent = <<>> /\ th'[t].refreshes = 0
         /\ th'[t].posts = <<>> /\ th'[t].saved = <<>>
         /\ cfg' = cfg /\ tokenFile' = tokenFile]_vars

C4_Witness ==
  \E t \in Threads :
    /\ DoneRequest(th[t]) /\ IsMissingCredential(th[t].result)
    /\ th[t].sent = <<>>
    /\ Truthy(cfg.refresh_token) /\ Truthy(cfg.client_id)
    /\ Truthy(cfg.client_secret)

\* C5: a transport failure of a data request ends the _request call with
\* OuraAPIError(0, "Request failed", underlying message), on the first
\* attempt and on the retry, for both values of retry_on_401; nothing is
\* sent after it and it triggers no refresh.
C5_TransportFailure ==
  \A t \in Threads :
    (/\ th[t].op = "request" /\ th[t].statuses # <<>>
     /\ th[t].last.kind = "transport") =>
       /\ th[t].pc = "done"
       /\ th[t].result.kind = "OuraAPIError"
       /\ th[t].result.status = 0
       /\ th[t].result.message = "Request failed"
       /\ th[t].result.detail = th[t].last.msg
       /\ Len(th[t].sent) = Len(th[t].statuses)
       /\ th[t].refreshes = Len(th[t].statuses) - 1

C5_Witness ==
  \E t \in Threads :
    /\ DoneRequest(th[t]) /\ th[t].last.kind = "transport"
    /\ th[t].statuses = <<401, 0>>
    /\ th[t].last.msg = "connection refused"

\* a body that parses as an error object with the fields the code reads
Structured(b) ==
  /\ b.shape = "dict"
  /\ (b.title # Absent \/ b.detail # Absent \/ b.error_description # Absent)

\* C6: a response with status >= 400 that ends a _request call makes it
\* fail with an OuraAPIError of that status: (status, title, detail or
\* error_description) for a structured error body, (status, "HTTP
\* {status}", raw text or null) for every other body.
C6_ErrorResponseMapping ==
  \A t \in Threads :
    (/\ DoneRequest(th[t]) /\ th[t].statuses # <<>>
     /\ th[t].last.kind = "response" /\ th[t].last.status >= 400) =>
       LET b == th[t].last.body
           res == th[t].result
       IN  /\ res.kind = "OuraAPIError"
           /\ res.status = th[t].last.status
           /\ Structured(b) =>
                 /\ res.message = Get(b.title)
                 /\ res.detail = (IF b.detail # Absent THEN b.detail
                                   ELSE Get(b.error_description))
           /\ ~Structured(b) =>
                 /\ res.message = HttpMessage(th[t].last.status)
                 /\ res.detail = (IF b.text = "" THEN None ELSE b.text)

\* a finished _handle_pagination call
DonePaginate(s) == s.op = "paginate" /\ s.pc = "done"

\* the "data" array of a page (empty when the key is missing)
DataOf(v) == IF v.data = NoData THEN <<>> ELSE v.data

\* the data arrays of pages 1..n, one after the other
RECURSIVE ConcatData(_, _)
ConcatData(pages, n) ==
  IF n = 0 THEN <<>> ELSE ConcatData(pages, n - 1) \o DataOf(pages[n])

\* C7: a _handle_pagination call that returns has collected n pages
\* (pages 1..n-1 with a non-empty next_token, page n with none), made
\* exactly n _request calls, the first without next_token and call k+1
\* with the next_token of page k and the same other parameters, and
\* returns the pages' data arrays concatenated in page order.
C7_PaginationConcatenates ==
  \A t \in Threads :
    (DonePaginate(th[t]) /\ th[t].result.kind = "return") =>
      LET s == th[t]
          n == Len(s.pages)
      IN  /\ n >= 1
          /\ Len(s.calls) = n
          /\ s.calls[1].next_token = Absent
          /\ \A k \in 1..(n - 1) :
                /\ s.pages[k].next_token \notin {Absent, None, ""}
                /\ s.calls[k + 1].next_token = s.pages[k].next_token
                /\ s.calls[k + 1].start_date = s.calls[1].start_date
          /\ s.pages[n].next_token \in {Absent, None, ""}
          /\ s.result.items = ConcatData(s.pages, n)

C7_Witness ==
  \E t \in Threads :
    /\ DonePaginate(th[t]) /\ th[t].result.kind = "return"
    /\ Len(th[t].pages) = MaxPages
    /\ th[t].pages[1].data = <<2, 3>>
    /\ th[t].pages[2].data = <<1>>
    /\ th[t].pages[1].next_token # th[t].pages[2].next_token
    /\ th[t].calls[1].start_date = "d1"

\* the running _request call of a pagination failed: missing credential,
\* transport failure, or a response with status >= 400 that ended it
PageRequestFailed(s) ==
  /\ DonePaginate(s)
  /\ \/ s.sent = <<>>
     \/ s.last.kind = "transport"
     \/ s.last.status >= 400

\* C8: when a page request fails after k >= 0 pages, _handle_pagination
\* fails with the error of that request and returns nothing: the collected
\* pages are not returned and no further page is requested.
C8_PaginationFailsWhole ==
  \A t \in Threads :
    PageRequestFailed(th[t]) =>
      LET s == th[t]
      IN  /\ s.result.kind \notin {"return", "none"}
          /\ s.result.items = <<>>
          /\ Len(s.calls) = Len(s.pages) + 1
          /\ Len(s.sent) = Len(s.statuses)
          /\ s.sent = <<>> => IsMissingCredential(s.result)
          /\ (s.sent # <<>> /\ s.last.kind = "transport") =>
                (s.result.kind = "OuraAPIError" /\ s.result.status = 0)
          /\ (s.sent # <<>> /\ s.last.kind = "response") =>
                (s.result.kind = "OuraAPIError"
                   => s.result.status = s.last.status)

C8_Witness ==
  \E t \in Threads :
    /\ PageRequestFailed(th[t])
    /\ Len(th[t].pages) = MaxPages - 1
    /\ th[t].all_items # <<>>
    /\ th[t].last.status = 500

\* C9: refresh_access_token returns True exactly when the refresh token
\* and both client credentials are present and the POST is answered 200
\* with a JSON object carrying a non-empty access_token and refresh_token;
\* then save_tokens ran exactly once with that pair.  Otherwise it returns
\* False, saves nothing, and without refresh token or credentials it
\* sends no POST.
C9_RefreshResult ==
  \A t \in Threads :
    LET s == th[t]
    IN  (s.op = "request" /\ s.refreshes = 1 /\ s.pc # "await_token") =>
          /\ Len(s.refreshRet) = 1
          /\ s.refreshRet[1] =
                (Len(s.posts) = 1 /\ Len(s.tokResps) = 1
                 /\ GoodTokenResponse(s.tokResps[1]))
          /\ s.refreshRet[1] =>
                s.saved = << <<s.tokResps[1].access_token,
                                s.tokResps[1].refresh_token>> >>
          /\ ~s.refreshRet[1] => s.saved = <<>>
          /\ (s.saved = <<>>) =>
                ((Len(s.posts) = 1) <=>
                   (/\ cfg.refresh_token \notin {None, ""}
                    /\ cfg.client_id \notin {None, ""}
                    /\ cfg.client_secret \notin {None, ""}))
          /\ Len(s.posts) = Len(s.tokResps)

C9_Witness ==
  \E t \in Threads :
    /\ th[t].op = "request" /\ th[t].refreshes = 1
    /\ th[t].refreshRet = <<TRUE>>
    /\ th[t].saved = << <<"A2", "R2">> >>

\* C10: with a token file holding a JSON object with access_token = A and
\* refresh_token = B, a fresh OuraConfig has access_token = A and
\* refresh_token = B whatever OURA_ACCESS_TOKEN and OURA_REFRESH_TOKEN
\* are, and client_id and client_secret are the environment's.
C10_FileWinsOverEnvironment ==
  (/\ fresh /\ tokenFile.state = "object"
   /\ tokenFile.access_token # Absent
   /\ tokenFile.refresh_token # Absent) =>
     /\ cfg.raised = None
     /\ cfg.access_token = tokenFile.access_token
     /\ cfg.refresh_token = tokenFile.refresh_token
     /\ cfg.client_id = env.OURA_CLIENT_ID
     /\ cfg.client_secret = env.OURA_CLIENT_SECRET

C10_Witness ==
  /\ fresh /\ tokenFile.state = "object"
  /\ tokenFile.access_token = "A1" /\ tokenFile.refresh_token = "R1"
  /\ env.OURA_ACCESS_TOKEN = "A0" /\ env.OURA_REFRESH_TOKEN = "R0"
  /\ cfg.access_token = "A1"

\* C11: for a token file that is missing, unreadable, undecodable,
\* malformed JSON or JSON that is not an object, a fresh OuraConfig raised
\* nothing and has access_token and refresh_token equal to the values of
\* OURA_ACCESS_TOKEN and OURA_REFRESH_TOKEN (None when unset).
C11_BrokenFileFallsBackToEnvironment ==
  (fresh /\ tokenFile.state # "object") =>
     /\ cfg.raised = None
     /\ cfg.access_token = env.OURA_ACCESS_TOKEN
     /\ cfg.refresh_token = env.OURA_REFRESH_TOKEN

\* C12 as stated: after a load from a readable JSON object, a field the
\* object lacks has the value of its environment variable and a field the
\* object has is the file's.
C12_PerFieldFallback ==
  (fresh /\ tokenFile.state = "object") =>
     /\ cfg.access_token =
          (IF tokenFile.access_token = Absent THEN env.OURA_ACCESS_TOKEN
           ELSE tokenFile.access_token)
     /\ cfg.refresh_token =
          (IF tokenFile.refresh_token = Absent THEN env.OURA_REFRESH_TOKEN
           ELSE tokenFile.refresh_token)

\* C12 (amended): after a load from a readable JSON object both fields
\* come from the file: a field the object has is the file's value, a field
\* it lacks is None, whatever the environment variables are.
C12_FileIsTakenWhole ==
  (fresh /\ tokenFile.state = "object") =>
     /\ cfg.raised = None
     /\ cfg.access_token =
          (IF tokenFile.access_token = Absent THEN None
           ELSE tokenFile.access_token)
     /\ cfg.refresh_token =
          (IF tokenFile.refresh_token = Absent THEN None
           ELSE tokenFile.refresh_token)

C12_Witness ==
  /\ fresh /\ tokenFile.state = "object"
  /\ tokenFile.access_token = "A1" /\ tokenFile.refresh_token = Absent
  /\ env.OURA_REFRESH_TOKEN = "R0"
  /\ cfg.access_token = "A1" /\ cfg.refresh_token = None

\* a str-or-None field that is set and not ""
NonEmpty(x) == x \notin {None, ""}

\* C13: validate() returns (True, "") exactly when access_token is
\* non-empty and (refresh_token is empty or client_id and client_secret are
\* both non-empty); without access_token it returns not-ok with the
\* personal-access-token message whatever the other fields are; with
\* access_token and refresh_token but a missing client credential it
\* returns not-ok; and the call changes no field.
C13_Validate ==
  /\ [](verdict # <<>> =>
         /\ verdict[1] =
              (/\ NonEmpty(cfg.access_token)
               /\ \/ ~NonEmpty(cfg.refresh_token)
                  \/ NonEmpty(cfg.client_id) /\ NonEmpty(cfg.client_secret))
         /\ verdict[1] => verdict[2] = ""
         /\ ~NonEmpty(cfg.access_token) =>
              verdict = <<FALSE, "OURA_ACCESS_TOKEN is required but not set. Get your Personal Access Token from: https://cloud.ouraring.com/personal-access-tokens">>
         /\ (/\ NonEmpty(cfg.access_token) /\ NonEmpty(cfg.refresh_token)
             /\ ~(NonEmpty(cfg.client_id) /\ NonEmpty(cfg.client_secret)))
              => (~verdict[1] /\ verdict[2] # ""))
  /\ [][verdict' # <<>> =>
          (cfg' = cfg /\ tokenFile' = tokenFile /\ env' = env)]_vars

C13_Witness ==
  /\ verdict # <<>> /\ ~verdict[1]
  /\ cfg.access_token = "A1" /\ cfg.refresh_token = "R1"
  /\ cfg.client_id = "CID" /\ cfg.client_secret = ""

\* C14: whenever save_tokens(a, r) runs inside a refresh, however the file
\* write ends, cfg holds access_token = a and refresh_token = r afterwards,
\* refresh_access_token returns True, and the retry is sent carrying the
\* new in-memory access token.
C14_SaveSurvivesWriteFailure ==
  [][\A t \in Threads :
       (th[t].pc = "await_token" /\ th'[t].saved # th[t].saved) =>
         LET new == th'[t].saved[Len(th'[t].saved)]
         IN  /\ cfg'.access_token = new[1]
             /\ cfg'.refresh_token = new[2]
             /\ th'[t].refreshRet = <<TRUE>>
             /\ th'[t].pc = "await_data"
             /\ Len(th'[t].sent) = 2
             /\ th'[t].sent[2].token = new[1]]_vars

\* C15: after a save_tokens whose file write succeeded the token file is
\* the JSON object with exactly access_token = a and refresh_token = r: it
\* equals the in-memory pair and the pair of the last refresh, and an
\* OuraConfig loaded from it afterwards has the same two tokens.
C15_SaveLoadRoundTrip ==
  /\ [](lastWrite = "ok" =>
         /\ tokenFile = FileOf("object", cfg.access_token, cfg.refresh_token)
         /\ \A t \in Threads :
              th[t].saved # <<>> =>
                th[t].saved[Len(th[t].saved)]
                  = <<tokenFile.access_token, tokenFile.refresh_token>>)
  /\ [][(lastWrite = "ok" /\ fresh') =>
          /\ cfg'.raised = None
          /\ cfg'.access_token = cfg.access_token
          /\ cfg'.refresh_token = cfg.refresh_token
          /\ tokenFile' = tokenFile]_vars

C15_Witness ==
  /\ fresh /\ lastWrite = "none"
  /\ tokenFile = FileOf("object", "A3", "R3")
  /\ cfg.access_token = "A3" /\ cfg.refresh_token = "R3"
  /\ env.OURA_ACCESS_TOKEN = "A0"

----------------------------------------------------------------------------
(* parse_date *)

\* a running or finished get_daily_sleep tool call that reached the client
ParsedDate(s) == s.tool = "get_daily_sleep" /\ s.calls # <<>>

StrToday == <<"t", "o", "d", "a", "y">>
StrYesterday == <<"y", "e", "s", "t", "e", "r", "d", "a", "y">>
StrLastWeek == <<"l", "a", "s", "t", " ", "w", "e", "e", "k">>
StrLastMonth == <<"l", "a", "s", "t", " ", "m", "o", "n", "t", "h">>

\* the date a start_date argument stands for, the argument taken as it is
LiteralDate(str, today) ==
  CASE str = StrToday -> DateOf(today)
    [] str = StrYesterday -> DateOf(today - 1)
    [] str = StrLastWeek -> DateOf(today - 7)
    [] str = StrLastMonth -> DateOf(today - 30)
    [] OTHER -> TextOf(str)

\* the argument in lower case and without surrounding white space
Folded(str) == strip(lower(str))

\* C17 (as stated): parse_date maps "today", "yesterday", "last week" and
\* "last month" to the current date minus 0, 1, 7 and 30 days and returns
\* any other string unchanged, character for character, with no case
\* folding, trimming or prefix matching.
C17_OtherStringsUnchanged ==
  \A t \in Threads :
    (ParsedDate(th[t]) /\ th[t].arg # NoneStr) =>
      th[t].calls[1].start_date = LiteralDate(th[t].arg, th[t].today)

\* C17 (amended): parse_date maps an absent or empty argument to the
\* current date; any other argument is first put in lower case and stripped
\* of surrounding white space, and then "today" is the current date,
\* "yesterday" the current date minus 1 day, a string that starts with
\* "last week" the current date minus 7 days, a string that starts with
\* "last month" the current date minus 30 days, and any other string is
\* returned in its lower-case, stripped form.
C17_FoldedThenMatched ==
  \A t \in Threads :
    ParsedDate(th[t]) =>
      LET a == th[t].arg
          f == Folded(a)
          now == th[t].today
          got == th[t].calls[1].start_date
      IN  /\ (a = NoneStr \/ a = <<>>) => got = DateOf(now)
          /\ (a # NoneStr /\ a # <<>>) =>
               /\ f = StrToday => got = DateOf(now)
               /\ f = StrYesterday => got = DateOf(now - 1)
               /\ startswith(f, StrLastWeek) => got = DateOf(now - 7)
               /\ startswith(f, StrLastMonth) => got = DateOf(now - 30)
               /\ (/\ f # StrToday
                   /\ f # StrYesterday
                   /\ ~startswith(f, StrLastWeek)
                   /\ ~startswith(f, StrLastMonth)) => got = TextOf(f)

\* "Last Week" was given and the request carries the day 7 days back
C17_Witness ==
  \E t \in Threads :
    /\ ParsedDate(th[t])
    /\ th[t].arg = <<"L", "a", "s", "t", " ", "W", "e", "e", "k">>
    /\ th[t].sent # <<>>
    /\ th[t].sent[1].params.start_date = DateOf(th[t].today - 7)

----------------------------------------------------------------------------
(* the tool and resource functions *)

\* a tool or resource function that ended
DoneTool(s) == s.tool # "none" /\ s.pc = "done"

\* the forwarder failed in the last client call of the function: the upstream
\* answered with an error status, the transport failed, or no credential
\* was there to send
ForwarderFailed(s) ==
  \/ s.sent = <<>>
  \/ s.last.kind = "transport"
  \/ s.last.status >= 400

\* the text {"error": ..., "status_code": code} and nothing else
ErrorText(tx, code) ==
  /\ tx.json.keys = {"error", "status_code"}
  /\ tx.json.status_code = code
  /\ tx.json.error # <<>>
  /\ tx.json.data = <<>>

\* the status code of the failure of the last client call
FailureCode(s) ==
  IF s.sent = <<>> THEN 401
  ELSE IF s.last.kind = "transport" THEN 0 ELSE s.last.status

\* C16: every tool and resource function, for every upstream-error,
\* transport-error and missing-credential failure of the forwarder at any
\* of its client calls, returns the JSON text {"error": message,
\* "status_code": code} with the status code of the failure; the failure
\* never leaves the function as an exception, and the text carries no data
\* of the calls that succeeded before.
C16_FailuresBecomePayloads ==
  \A t \in Threads :
    (DoneTool(th[t]) /\ ForwarderFailed(th[t])) =>
      /\ th[t].output.kind = "return"
      /\ ErrorText(th[t].output.text, FailureCode(th[t]))

\* the same, for the failures that the forwarder raises as OuraAPIError
C16_RaisedFailuresBecomePayloads ==
  \A t \in Threads :
    (DoneTool(th[t]) /\ th[t].result.kind = "OuraAPIError") =>
      /\ th[t].output.kind = "return"
      /\ ErrorText(th[t].output.text, th[t].result.status)
      /\ th[t].result.status = FailureCode(th[t])

\* the third call of the today summary failed after two calls returned data
C16_Witness ==
  \E t \in Threads :
    /\ DoneTool(th[t])
    /\ th[t].tool = "get_today_summary"
    /\ Len(th[t].collected) = 2
    /\ th[t].collected[1] # <<>>
    /\ th[t].result.kind = "OuraAPIError"
    /\ th[t].output.kind = "return"

----------------------------------------------------------------------------
(* termination of _handle_pagination *)

\* a _handle_pagination call that returned its list
ReturnedList(s) ==
  s.op = "paginate" /\ s.pc = "done" /\ s.result.kind = "return"

\* the page carries a next_token that is neither absent nor empty
HasCursor(v) == Truthy(Get(v.next_token))

\* C18: _handle_pagination terminates exactly when a page carries an absent
\* or empty next_token: when every page request returns a page and the
\* upstream eventually returns such a page, the call eventually returns; it
\* returns with a page without next_token as its last page, and after every
\* page with a next_token, however many there were, it has sent the next
\* page request and has returned nothing.
C18_TerminatesAtLastPage ==
  /\ \A t \in Callers :
       (th[t].op = "paginate" /\ th[t].pc = "await_data")
          ~> ReturnedList(th[t])
  /\ [](\A t \in Threads :
          th[t].op = "paginate" =>
            /\ \A i \in 1..(Len(th[t].pages) - 1) : HasCursor(th[t].pages[i])
            /\ ReturnedList(th[t]) =>
                 /\ th[t].pages # <<>>
                 /\ ~HasCursor(th[t].pages[Len(th[t].pages)])
            /\ (/\ th[t].pages # <<>>
                /\ HasCursor(th[t].pages[Len(th[t].pages)])) =>
                 /\ th[t].pc = "await_data"
                 /\ th[t].result = NoResult
                 /\ Len(th[t].calls) = Len(th[t].pages) + 1)

\* the call returned after MaxPages pages, all but the last with a cursor
C18_Witness ==
  \E t \in Threads :
    /\ ReturnedList(th[t])
    /\ Len(th[t].pages) = MaxPages
    /\ HasCursor(th[t].pages[1])

----------------------------------------------------------------------------
(* the token of the retry *)

\* the _request call sent its retry after a refresh that saved new tokens
Retried(s) == s.op = "request" /\ Len(s.sent) = 2 /\ s.saved # <<>>

C20_WitnessStored ==
  \E t \in Threads :
    /\ Retried(th[t])
    /\ th[t].override = None
    /\ th[t].sent[1].token = "A0"
    /\ th[t].sent[2].token = "A2"

----------------------------------------------------------------------------
(* two calls and one config *)

MemPair == <<cfg.access_token, cfg.refresh_token>>
FilePair == <<tokenFile.access_token, tokenFile.refresh_token>>

\* both calls saw a 401, posted a refresh with the same refresh token, and
\* ran save_tokens to its end, the token file written twice
DoubleRefresh ==
  \E t, u \in Threads :
    /\ t # u
    /\ \A v \in {t, u} :
         /\ th[v].statuses # <<>>
         /\ th[v].statuses[1] = 401
         /\ th[v].posts # <<>>
         /\ th[v].saved # <<>>
         /\ th[v].writes = <<"ok">>
    /\ th[t].posts[1].refresh_token = th[u].posts[1].refresh_token

\* no call is running, and the config holds the pair of one refresh and the
\* token file the pair of another
Mismatch ==
  /\ \A t \in Threads : ~InFlight(th[t])
  /\ tokenFile.state = "object"
  /\ MemPair # FilePair
  /\ \E t, u \in Threads :
       /\ t # u
       /\ th[t].saved # <<>> /\ th[t].saved[Len(th[t].saved)] = MemPair
       /\ th[u].saved # <<>> /\ th[u].saved[Len(th[u].saved)] = FilePair

\* no call began while another was running
Serialized == \A t \in Threads : ~th[t].concurrent

\* every write of the token file succeeded
AllWritesOk ==
  \A t \in Threads : \A i \in 1..Len(th[t].writes) : th[t].writes[i] = "ok"

\* every refresh that saved got a refresh token other than the one it posted
Rotated ==
  \A t \in Threads :
    th[t].saved # <<>> =>
      th[t].saved[1][2] # th[t].posts[1].refresh_token

\* C19 (as stated): when the calls are serialized, neither the state in
\* which both calls refreshed with the same refresh token and saved twice
\* nor the state in which the config and the token file hold the pairs of
\* different refreshes is reachable.
C19_SerializedNeverCollide ==
  Serialized => (~DoubleRefresh /\ ~Mismatch)

\* C19 (amended): with two concurrent _request calls the double refresh
\* with one refresh token and the mismatch of config and token file are
\* reachable; when the calls are serialized, the double refresh is not
\* reachable as long as the token endpoint rotates the refresh token, and
\* the mismatch is not reachable as long as the token file writes succeed.
C19_SerializedCollideOnlyByUpstreamOrDisk ==
  Serialized =>
    /\ ~(DoubleRefresh /\ Rotated)
    /\ ~(Mismatch /\ AllWritesOk)

\* two concurrent calls refreshed with the same refresh token, the token
\* file was written twice, and config and file hold different pairs
C19_Witness ==
  /\ ~Serialized
  /\ DoubleRefresh
  /\ Rotated
  /\ Mismatch
  /\ AllWritesOk

----------------------------------------------------------------------------
(* the credentials stay valid *)

\* a step of a _request, _handle_pagination or refresh_access_token call
CallStep == \E t \in Threads : th'[t] # th[t]

\* C21: from any configuration for which validate() returns ok, every step
\* of a _request, _handle_pagination or refresh_access_token call, whatever
\* the upstream answers, leads to a configuration in which access_token is
\* non-empty, a refresh_token comes with client_id and client_secret, and
\* client_id and client_secret are what they were: validate() still
\* returns ok.
C21_ValidateStaysOk ==
  [][(validate(cfg)[1] /\ CallStep) =>
       /\ validate(cfg')[1]
       /\ Truthy(cfg'.access_token)
       /\ Truthy(cfg'.refresh_token) =>
            (Truthy(cfg'.client_id) /\ Truthy(cfg'.client_secret))
       /\ cfg'.client_id = cfg.client_id
       /\ cfg'.client_secret = cfg.client_secret
       /\ cfg'.client_id = env.OURA_CLIENT_ID
       /\ cfg'.client_secret = env.OURA_CLIENT_SECRET]_vars

\* a refresh replaced the tokens of a valid configuration
C21_Witness ==
  /\ ~fresh
  /\ validate(cfg)[1]
  /\ cfg.access_token \in {"A2", "A3"}
  /\ cfg.client_id = "CID"
  /\ \E t \in Threads : th[t].saved # <<>> /\ th[t].refreshRet = <<TRUE>>

----------------------------------------------------------------------------
(* the frame of the stored tokens *)

\* refresh_access_token returned in this step of thread t, and returned ok
RefreshReturns(t, ok) ==
  /\ th[t].pc = "await_token" \/ (th[t].pc = "await_data" /\ th'[t].pc = "done")
  /\ th'[t].refreshRet = Append(th[t].refreshRet, ok)

\* the in-memory tokens and the token file are what they were
TokensKept ==
  /\ cfg'.access_token = cfg.access_token
  /\ cfg'.refresh_token = cfg.refresh_token
  /\ tokenFile' = tokenFile

\* C22: the in-memory access_token and refresh_token and the token file
\* change only in a refresh that returns true.  A refresh_access_token call
\* that returns false, a _request call that receives no 401 (success, other
\* error, transport failure, missing credential) and a _request call made
\* with retry_on_401 = false leave them exactly as they were.
C22_TokensChangeOnlyInRefresh ==
  /\ [][CallStep =>
          /\ ~TokensKept => \E t \in Threads : RefreshReturns(t, TRUE)
          /\ \A t \in Threads :
               /\ RefreshReturns(t, FALSE) => TokensKept
               /\ (/\ th'[t] # th[t]
                   /\ th'[t].op = "request"
                   /\ \/ ~th'[t].retry0
                      \/ \A i \in 1..Len(th'[t].statuses) :
                           th'[t].statuses[i] # 401) => TokensKept]_vars
  /\ [](\A t \in Threads :
          th[t].op = "request" =>
            /\ th[t].saved # <<>> <=> th[t].refreshRet = <<TRUE>>
            /\ th[t].saved # <<>> =>
                 (th[t].retry0 /\ th[t].statuses[1] = 401)
            /\ (th[t].sent = <<>> \/ ~th[t].retry0) =>
                 (th[t].refreshes = 0 /\ th[t].posts = <<>>))

\* the token endpoint was asked and the refresh returned false: the tokens
\* are those of the start
C22_Witness ==
  /\ fresh
  /\ cfg.access_token = env.OURA_ACCESS_TOKEN
  /\ tokenFile.state = "missing"
  /\ \E t \in Threads :
       /\ th[t].op = "request"
       /\ th[t].pc = "done"
       /\ th[t].tokResps # <<>>
       /\ th[t].refreshRet = <<FALSE>>

\* a call with retry_on_401 = false received a 401 after an earlier call
\* had refreshed: the tokens are still those of that refresh
C22_WitnessNoRetry ==
  /\ ~fresh
  /\ lastWrite = "ok"
  /\ tokenFile = FileOf("object", cfg.access_token, cfg.refresh_token)
  /\ \E t \in Threads :
       /\ th[t].op = "request"
       /\ th[t].pc = "done"
       /\ ~th[t].retry0
       /\ th[t].statuses = <<401>>

----------------------------------------------------------------------------
(* refreshes of a paginate call *)

\* C23: the one-refresh bound holds per page request: every page request
\* of _handle_pagination runs with the refresh-retry enabled and sends at
\* most two data requests around at most one refresh, so a call of N page
\* requests makes at most N refreshes and at most 2N data requests; the
\* retry after a refresh repeats the page request with the same next_token,
\* and the items collected are at every moment those of the pages received,
\* in order, none lost and none twice.
C23_OneRefreshPerPage ==
  \A t \in Threads :
    LET s == th[t]
    IN  s.op = "paginate" =>
          /\ s.retry0
          /\ Len(s.sent) <= 2
          /\ s.refreshes <= 1
          /\ s.allRefreshes <= Len(s.calls)
          /\ s.allSent <= 2 * Len(s.calls)
          /\ Len(s.calls) \in {Len(s.pages), Len(s.pages) + 1}
          /\ s.all_items = ConcatData(s.pages, Len(s.pages))
          /\ Len(s.sent) = 2 =>
               /\ s.statuses[1] = 401
               /\ s.refreshRet = <<TRUE>>
               /\ s.sent[2].params = s.sent[1].params
               /\ s.sent[2].params = s.calls[Len(s.calls)]
          /\ ReturnedList(s) =>
               /\ Len(s.calls) = Len(s.pages)
               /\ s.result.items = ConcatData(s.pages, Len(s.pages))

\* a call of two pages refreshed at both: the second page got a 401, was
\* asked again with its next_token, and the call returned the items of both
C23_Witness ==
  \E t \in Threads :
    /\ ReturnedList(th[t])
    /\ Len(th[t].pages) = 2
    /\ th[t].allRefreshes = 2
    /\ th[t].allSent = 4
    /\ th[t].statuses = <<401, 200>>
    /\ Truthy(th[t].sent[2].params.next_token)
    /\ th[t].pages[1].data # NoData
    /\ th[t].result.items
         = DataOf(th[t].pages[1]) \o DataOf(th[t].pages[2])

====
